---- MODULE Spec2Model ----
(***************************************************************************)
(* Employee/Task manager web client: the session store (AuthContext),      *)
(* the remote API client (services/api.ts) with its two interceptors, and  *)
(* the list screens (EmployeePage, TaskPage) with their stale-closure      *)
(* reconciliation of server responses into React state.                    *)
(*                                                                         *)
(* Text values are sequences of one-character strings so that trim() and   *)
(* the e-mail regex are computed, not assumed.  A task keeps id, title and *)
(* status; description, due date and assignee never influence control flow *)
(* and are left out.                                                       *)
(***************************************************************************)
EXTENDS Integers, Sequences, FiniteSets, TLC

\* ---------------------------------------------------------------- bounds
MaxId == 2          \* ids the server issues are 1..MaxId
MaxInFlight == 2    \* requests in flight at the same time
MaxRequests == 3    \* create, update and delete requests a run sends

\* ------------------------------------------------------------- constants
Unauthorized == 401
Ok == 200
ServerError == 500
NetworkError == 0   \* no response object at all (error.response undefined)

NoToken == ""
IssuedToken == "jwt"
ReissuedToken == "jwt2"   \* what a later POST /token can answer

PathLogin == "/"
PathEmployees == "/employees"
PathTasks == "/tasks"
Protected == {PathEmployees, PathTasks}

VARIABLES
  token,            \* localStorage['token'], NoToken when absent
  isAuthenticated,  \* AuthProvider state
  authLoading,      \* AuthProvider 'loading'
  location,         \* router path
  redirecting,      \* window.location.href = '/' assigned, document not yet replaced
  loginReq,         \* <<>> or <<the login call in flight>>
  loginError,       \* the promise returned by the last login() rejected
  mounted,          \* which protected page component is mounted: "none", PathEmployees, PathTasks
  tasks,            \* TaskPage state
  employees,        \* EmployeePage state / TaskPage state of the same name
  loading,          \* page 'loading'
  error,            \* page 'error' banner
  dialogOpen,
  editing,          \* editingTask / editingEmployee: <<>> or <<entity>>
  formData,
  formErrors,
  submitting,
  inflight,         \* apiClient requests sent and not yet settled, in send order
  dbTasks,          \* the server's tasks
  dbEmployees,      \* the server's employees
  nextTaskId,
  nextEmployeeId,
  issued            \* how many create, update and delete requests have been sent

authVars == <<token, isAuthenticated, authLoading, location, redirecting, loginReq, loginError>>
pageVars == <<mounted, tasks, employees, loading, error, dialogOpen, editing, formData, formErrors, submitting>>
formVars == <<dialogOpen, editing, formData, formErrors, submitting>>
serverVars == <<dbTasks, dbEmployees, nextTaskId, nextEmployeeId>>
vars == <<authVars, pageVars, inflight, serverVars, issued>>

\* --------------------------------------------------------------- helpers
RemoveAt(s, i) == [k \in 1..(Len(s) - 1) |-> IF k < i THEN s[k] ELSE s[k + 1]]

Ids(list) == {list[k].id : k \in 1..Len(list)}

\* a filter whose predicate holds for every element
FilterOutNothing(list, id) == list

\* Array.prototype.filter(x => x.id !== id)
RECURSIVE FilterOut(_, _)
FilterOut(list, id) ==
  IF list = <<>> THEN <<>>
  ELSE IF Head(list).id = id THEN FilterOut(Tail(list), id)
       ELSE <<Head(list)>> \o FilterOut(Tail(list), id)

\* Array.prototype.map(x => x.id === id ? updated : x)
ReplaceById(list, id, updated) ==
  [k \in 1..Len(list) |-> IF list[k].id = id THEN updated ELSE list[k]]

\* the rows of a server table in id order, as GET /tasks and GET /employees return them
RECURSIVE SortById(_)
SortById(S) ==
  IF S = {} THEN <<>>
  ELSE LET m == CHOOSE x \in S : \A y \in S : x.id <= y.id
       IN <<m>> \o SortById(S \ {m})

\* String.prototype.trim() on a sequence of characters
RECURSIVE TrimLeft(_)
TrimLeft(s) == IF s # <<>> /\ Head(s) = " " THEN TrimLeft(Tail(s)) ELSE s

RECURSIVE TrimRight(_)
TrimRight(s) ==
  IF s # <<>> /\ s[Len(s)] = " " THEN TrimRight(SubSeq(s, 1, Len(s) - 1)) ELSE s

Trim(s) == TrimRight(TrimLeft(s))

\* /\S+@\S+\.\S+/.test(s): unanchored; an '@' with a non-space before it, and
\* after it a run of non-spaces that holds a '.' with a non-space on both sides
NonSpaceRun(s, a, b) == \A k \in a..b : s[k] # " "

\* a test for the '@' alone
EmailRegexAtOnly(s) == \E at \in 2..Len(s) : s[at] = "@" /\ s[at - 1] # " "

EmailRegex(s) ==
  \E at \in 2..Len(s) :
    /\ s[at] = "@"
    /\ s[at - 1] # " "
    /\ \E dot \in (at + 2)..(Len(s) - 1) :
         /\ s[dot] = "."
         /\ NonSpaceRun(s, at + 1, dot - 1)
         /\ s[dot + 1] # " "

\* ----------------------------------------------------------- page state
EmptyTaskForm == [title |-> <<>>]
EmptyEmployeeForm == [name |-> <<>>, email |-> <<>>, department |-> <<>>, position |-> <<>>]
NoTaskErrors == [title |-> ""]
NoEmployeeErrors == [name |-> "", email |-> "", department |-> "", position |-> ""]

\* the header set once from the token the application started with
NewRequestCachedToken(op, handler, id, body, snap) ==
  [op |-> op, handler |-> handler, id |-> id, body |-> body, snap |-> snap,
   authorization |-> IssuedToken, live |-> TRUE, raced |-> FALSE,
   phase |-> "sent", status |-> NetworkError, data |-> <<>>, detail |-> ""]

\* an apiClient request as it leaves the request interceptor
NewRequest(op, handler, id, body, snap) ==
  [op |-> op, handler |-> handler, id |-> id, body |-> body,
   snap |-> snap,                  \* the list the handler's closure captured
   authorization |-> token,        \* 'Bearer <token>', NoToken when no header is set
   live |-> TRUE,                  \* the component that sent it is still mounted
   raced |-> FALSE,                \* an update of the same entity, in flight with it, was reconciled
   phase |-> "sent", status |-> NetworkError, data |-> <<>>, detail |-> ""]

\* unmounting leaves the requests in flight, their setState calls become no-ops
Orphaned(reqs) == [k \in 1..Len(reqs) |-> [reqs[k] EXCEPT !.live = FALSE]]

\* useState initial values of a page, and the requests its mount effect sends
MountEffect(path) ==
  IF path = PathTasks
    THEN <<NewRequest("getTasks", "fetchTasks", 0, <<>>, <<>>),
           NewRequest("getEmployees", "fetchEmployeesForTasks", 0, <<>>, <<>>)>>
  ELSE IF path = PathEmployees
    THEN <<NewRequest("getEmployees", "fetchEmployees", 0, <<>>, <<>>)>>
  ELSE <<>>

CanMount(path) == Len(inflight) + Len(MountEffect(path)) <= MaxInFlight

\* the page at 'path' replaces whatever page was mounted ("none" unmounts)
Mount(path) ==
  /\ mounted' = path
  /\ tasks' = <<>>
  /\ employees' = <<>>
  /\ loading' = TRUE
  /\ error' = ""
  /\ dialogOpen' = FALSE
  /\ editing' = <<>>
  /\ formData' = IF path = PathEmployees THEN EmptyEmployeeForm ELSE EmptyTaskForm
  /\ formErrors' = IF path = PathEmployees THEN NoEmployeeErrors ELSE NoTaskErrors
  /\ submitting' = FALSE
  /\ inflight' = Orphaned(inflight) \o MountEffect(path)

\* ------------------------------------------------------------------ Init
InitialTask == [id |-> 1, title |-> <<"a">>, status |-> "pending"]
InitialEmployee ==
  [id |-> 1, name |-> <<"n">>, email |-> <<"e", "@", "e", ".", "e">>,
   department |-> <<"d">>, position |-> <<"p">>]

Init ==
  /\ token \in {NoToken, IssuedToken}
  /\ isAuthenticated = FALSE
  /\ authLoading = TRUE
  /\ location \in {PathLogin, PathEmployees, PathTasks}
  /\ redirecting = FALSE
  /\ loginReq = <<>>
  /\ loginError = FALSE
  /\ mounted = "none"
  /\ tasks = <<>>
  /\ employees = <<>>
  /\ loading = TRUE
  /\ error = ""
  /\ dialogOpen = FALSE
  /\ editing = <<>>
  /\ formData = EmptyTaskForm
  /\ formErrors = NoTaskErrors
  /\ submitting = FALSE
  /\ inflight = <<>>
  /\ dbTasks = {InitialTask}
  /\ dbEmployees = {InitialEmployee}
  /\ nextTaskId = 2
  /\ nextEmployeeId = 2
  /\ issued = 0

\* ------------------------------------------------------- session store
\* a guard that waits for the initial check and then lets everybody in
ProtectedRouteIgnoresSession(authenticated, checking) == ~checking

\* the route guard renders its children for an authenticated session once the
\* initial check is over, and redirects to the login route otherwise
ProtectedRouteShows(authenticated, checking) == authenticated /\ ~checking

\* AuthProvider's mount effect; the route guard then shows the page or redirects
checkAuth ==
  /\ authLoading
  /\ isAuthenticated' = (token # NoToken)
  /\ authLoading' = FALSE
  /\ IF location \in Protected /\ ProtectedRouteShows(isAuthenticated', authLoading')
       THEN /\ Mount(location)
            /\ location' = location
       ELSE /\ location' = PathLogin
            /\ UNCHANGED <<pageVars, inflight>>
  /\ UNCHANGED <<token, redirecting, loginReq, loginError, serverVars>>
  /\ UNCHANGED issued

\* AuthContext.login called: apiService.login posts the credentials with plain axios

login(valid) ==
  /\ location = PathLogin
  /\ ~authLoading
  /\ loginReq = <<>>
  /\ loginReq' = <<[valid |-> valid, phase |-> "sent", status |-> NetworkError,
                    access_token |-> NoToken]>>
  /\ loginError' = FALSE
  /\ UNCHANGED <<token, isAuthenticated, authLoading, location, redirecting,
                 pageVars, inflight, serverVars>>
  /\ UNCHANGED issued

\* POST /token at the server: a token for the right credentials, 401 otherwise

serveLogin ==
  /\ loginReq # <<>>
  /\ loginReq[1].phase = "sent"
  /\ \E st \in {Ok, Unauthorized, NetworkError}, issuedNow \in {IssuedToken, ReissuedToken} :
       /\ (st = Ok) => loginReq[1].valid
       /\ (st = Unauthorized) => ~loginReq[1].valid
       /\ (st # Ok) => issuedNow = IssuedToken
       /\ loginReq' = <<[loginReq[1] EXCEPT !.phase = "done", !.status = st,
                           !.access_token = IF st = Ok THEN issuedNow ELSE NoToken]>>
  /\ UNCHANGED <<token, isAuthenticated, authLoading, location, redirecting, loginError,
                 pageVars, inflight, serverVars>>
  /\ UNCHANGED issued

\* ApiService.login returning the response without storing the token
loginSkipsStore ==
  /\ loginReq # <<>>
  /\ loginReq[1].phase = "done"
  /\ loginReq[1].status = Ok
  /\ loginReq' = <<[loginReq[1] EXCEPT !.phase = "stored"]>>
  /\ UNCHANGED <<token, isAuthenticated, authLoading, location, redirecting, loginError,
                 pageVars, inflight, serverVars>>
  /\ UNCHANGED issued

\* ApiService.login after the await: localStorage.setItem('token', access_token)

loginStoreToken ==
  /\ loginReq # <<>>
  /\ loginReq[1].phase = "done"
  /\ loginReq[1].status = Ok
  /\ token' = loginReq[1].access_token
  /\ loginReq' = <<[loginReq[1] EXCEPT !.phase = "stored"]>>
  /\ UNCHANGED <<isAuthenticated, authLoading, location, redirecting, loginError,
                 pageVars, inflight, serverVars>>
  /\ UNCHANGED issued

\* AuthContext.login after its await: setIsAuthenticated(true)

loginSetAuthenticated ==
  /\ loginReq # <<>>
  /\ loginReq[1].phase = "stored"
  /\ isAuthenticated' = TRUE
  /\ loginReq' = <<>>
  /\ UNCHANGED <<token, authLoading, location, redirecting, loginError,
                 pageVars, inflight, serverVars>>
  /\ UNCHANGED issued

\* setIsAuthenticated(true) placed where it also runs for a rejected login
loginRejectedAuthenticates ==
  /\ loginReq # <<>>
  /\ loginReq[1].phase = "done"
  /\ loginReq[1].status # Ok
  /\ isAuthenticated' = TRUE
  /\ loginError' = TRUE
  /\ loginReq' = <<>>
  /\ UNCHANGED <<token, authLoading, location, redirecting,
                 pageVars, inflight, serverVars>>
  /\ UNCHANGED issued

\* axios.post rejected: ApiService.login throws before setItem, AuthContext rethrows

loginRejected ==
  /\ loginReq # <<>>
  /\ loginReq[1].phase = "done"
  /\ loginReq[1].status # Ok
  /\ loginError' = TRUE
  /\ loginReq' = <<>>
  /\ UNCHANGED <<token, isAuthenticated, authLoading, location, redirecting,
                 pageVars, inflight, serverVars>>
  /\ UNCHANGED issued

\* a logout that only resets the flag and leaves localStorage alone
logoutKeepsToken ==
  /\ mounted # "none"
  /\ isAuthenticated' = FALSE
  /\ location' = PathLogin
  /\ Mount("none")
  /\ UNCHANGED <<token, authLoading, redirecting, loginReq, loginError, serverVars>>
  /\ UNCHANGED issued

\* AuthContext.logout via Layout.handleLogout, then navigate('/')

logout ==
  /\ mounted # "none"
  /\ token' = NoToken
  /\ isAuthenticated' = FALSE
  /\ location' = PathLogin
  /\ Mount("none")
  /\ UNCHANGED <<authLoading, redirecting, loginReq, loginError, serverVars>>
  /\ UNCHANGED issued

\* Layout's navigation buttons

navigate(path) ==
  /\ mounted # "none"
  /\ path # location
  /\ CanMount(path)
  /\ location' = path
  /\ Mount(path)
  /\ UNCHANGED <<token, isAuthenticated, authLoading, redirecting, loginReq, loginError,
                 serverVars>>
  /\ UNCHANGED issued

\* the login screen sends an authenticated user on to a protected route

enterApp(path) ==
  /\ location = PathLogin
  /\ ProtectedRouteShows(isAuthenticated, authLoading)
  /\ CanMount(path)
  /\ location' = path
  /\ Mount(path)
  /\ UNCHANGED <<token, isAuthenticated, authLoading, redirecting, loginReq, loginError,
                 serverVars>>
  /\ UNCHANGED issued

\* window.location.href = '/' takes effect: the document is replaced, every
\* piece of React state is re-created and the requests of the old document abort

reload ==
  /\ redirecting
  /\ redirecting' = FALSE
  /\ location' = PathLogin
  /\ isAuthenticated' = FALSE
  /\ authLoading' = TRUE
  /\ loginReq' = <<>>
  /\ loginError' = FALSE
  /\ mounted' = "none"
  /\ tasks' = <<>>
  /\ employees' = <<>>
  /\ loading' = TRUE
  /\ error' = ""
  /\ dialogOpen' = FALSE
  /\ editing' = <<>>
  /\ formData' = EmptyTaskForm
  /\ formErrors' = NoTaskErrors
  /\ submitting' = FALSE
  /\ inflight' = <<>>
  /\ UNCHANGED <<token, serverVars>>
  /\ UNCHANGED issued

\* ------------------------------------------------------------ the server
\* PUT merges the fields the body carries into the stored row

MergeTask(row, body) ==
  [id |-> row.id,
   title |-> IF "title" \in DOMAIN body THEN body.title ELSE row.title,
   status |-> IF "status" \in DOMAIN body THEN body.status ELSE row.status]

MergeEmployee(row, body) ==
  [id |-> row.id, name |-> body.name, email |-> body.email,
   department |-> body.department, position |-> body.position]

Row(table, id) == CHOOSE x \in table : x.id = id

Answered(r, st, data, detail) ==
  [r EXCEPT !.phase = "done", !.status = st, !.data = data, !.detail = detail]

\* what a failing response can look like: rejected token, rejection with and
\* without a 'detail' message, no response at all
Rejections ==
  {[status |-> Unauthorized, detail |-> "Rejected"],
   [status |-> ServerError, detail |-> "Rejected"],
   [status |-> NetworkError, detail |-> ""]}

\* the server carries out request i and answers 200
serveOk(i) ==
  LET r == inflight[i] IN
  /\ r.phase = "sent"
  /\ r.authorization # NoToken
  /\ \/ /\ r.op = "getTasks"
        /\ inflight' = [inflight EXCEPT ![i] = Answered(r, Ok, SortById(dbTasks), "")]
        /\ UNCHANGED serverVars
     \/ /\ r.op = "getEmployees"
        /\ inflight' = [inflight EXCEPT ![i] = Answered(r, Ok, SortById(dbEmployees), "")]
        /\ UNCHANGED serverVars
     \/ /\ r.op = "createTask"
        /\ nextTaskId <= MaxId
        /\ LET row == [id |-> nextTaskId, title |-> r.body.title, status |-> "pending"] IN
             /\ dbTasks' = dbTasks \cup {row}
             /\ inflight' = [inflight EXCEPT ![i] = Answered(r, Ok, <<row>>, "")]
        /\ nextTaskId' = nextTaskId + 1
        /\ UNCHANGED <<dbEmployees, nextEmployeeId>>
     \/ /\ r.op = "updateTask"
        /\ r.id \in {x.id : x \in dbTasks}
        /\ LET old == Row(dbTasks, r.id)
               row == MergeTask(old, r.body) IN
             /\ dbTasks' = (dbTasks \ {old}) \cup {row}
             /\ inflight' = [inflight EXCEPT ![i] = Answered(r, Ok, <<row>>, "")]
        /\ UNCHANGED <<dbEmployees, nextTaskId, nextEmployeeId>>
     \/ /\ r.op = "deleteTask"
        /\ r.id \in {x.id : x \in dbTasks}
        /\ dbTasks' = dbTasks \ {Row(dbTasks, r.id)}
        /\ inflight' = [inflight EXCEPT ![i] = Answered(r, Ok, <<>>, "")]
        /\ UNCHANGED <<dbEmployees, nextTaskId, nextEmployeeId>>
     \/ /\ r.op = "createEmployee"
        /\ nextEmployeeId <= MaxId
        /\ LET row == MergeEmployee([id |-> nextEmployeeId], r.body) IN
             /\ dbEmployees' = dbEmployees \cup {row}
             /\ inflight' = [inflight EXCEPT ![i] = Answered(r, Ok, <<row>>, "")]
        /\ nextEmployeeId' = nextEmployeeId + 1
        /\ UNCHANGED <<dbTasks, nextTaskId>>
     \/ /\ r.op = "updateEmployee"
        /\ r.id \in {x.id : x \in dbEmployees}
        /\ LET old == Row(dbEmployees, r.id)
               row == MergeEmployee(old, r.body) IN
             /\ dbEmployees' = (dbEmployees \ {old}) \cup {row}
             /\ inflight' = [inflight EXCEPT ![i] = Answered(r, Ok, <<row>>, "")]
        /\ UNCHANGED <<dbTasks, nextTaskId, nextEmployeeId>>
     \/ /\ r.op = "deleteEmployee"
        /\ r.id \in {x.id : x \in dbEmployees}
        /\ dbEmployees' = dbEmployees \ {Row(dbEmployees, r.id)}
        /\ inflight' = [inflight EXCEPT ![i] = Answered(r, Ok, <<>>, "")]
        /\ UNCHANGED <<dbTasks, nextTaskId, nextEmployeeId>>
  /\ UNCHANGED <<authVars, pageVars>>
  /\ UNCHANGED issued

\* request i fails: at the server, which then leaves its tables alone, or on the way

serveReject(i, rej) ==
  LET r == inflight[i] IN
  /\ r.phase = "sent"
  /\ inflight' = [inflight EXCEPT ![i] = Answered(r, rej.status, <<>>, rej.detail)]
  /\ UNCHANGED <<authVars, pageVars, serverVars>>
  /\ UNCHANGED issued

\* ------------------------------------------------- response interceptor
\* an interceptor that evicts the token on every failed response
ResponseInterceptorAnyError(r) ==
  /\ token' = IF r.status # Ok THEN NoToken ELSE token
  /\ redirecting' = (redirecting \/ r.status # Ok)
  /\ UNCHANGED <<isAuthenticated, authLoading, location, loginReq, loginError>>

\* runs for every apiClient response before the caller's continuation

ResponseInterceptor(r) ==
  /\ token' = IF r.status = Unauthorized THEN NoToken ELSE token
  /\ redirecting' = (redirecting \/ r.status = Unauthorized)
  /\ UNCHANGED <<isAuthenticated, authLoading, location, loginReq, loginError>>

\* the message without the '|| fallback'
ErrorMessageDetailOnly(r, fallback) == r.detail

\* error.response?.data?.detail || fallback
ErrorMessage(r, fallback) == IF r.detail # "" THEN r.detail ELSE fallback

IsUpdate(r) == r.op \in {"updateTask", "updateEmployee"}

\* the requests left in flight once request i is settled; an update that was
\* in flight together with a reconciled update of the same entity is marked
AfterSettling(i) ==
  LET r == inflight[i]
      rest == RemoveAt(inflight, i) IN
  IF r.live /\ r.status = Ok /\ IsUpdate(r)
    THEN [k \in 1..Len(rest) |->
           IF rest[k].live /\ rest[k].op = r.op /\ rest[k].id = r.id
             THEN [rest[k] EXCEPT !.raced = TRUE] ELSE rest[k]]
    ELSE rest

Settled(i, handler) ==
  /\ inflight[i].phase = "done"
  /\ inflight[i].handler = handler
  /\ inflight[i].live

\* a response whose component is gone: only the interceptor has an effect
settleUnmounted(i) ==
  LET r == inflight[i] IN
  /\ r.phase = "done"
  /\ ~r.live
  /\ ResponseInterceptor(r)
  /\ inflight' = AfterSettling(i)
  /\ UNCHANGED <<pageVars, serverVars>>
  /\ UNCHANGED issued

\* -------------------------------------------------------------- TaskPage

Room == Len(inflight) < MaxInFlight /\ issued < MaxRequests

\* the page renders its list (not the spinner) and no modal dialog covers it
TaskListUsable == mounted = PathTasks /\ ~loading /\ ~dialogOpen

\* the Complete button rendered for every task that is not completed
StatusButtonsLoose(status) ==
  IF status = "completed" THEN {}
  ELSE (IF status = "pending" THEN {[label |-> "Start", to |-> "ongoing"]} ELSE {})
       \cup {[label |-> "Complete", to |-> "completed"]}
       \cup (IF status = "ongoing" THEN {[label |-> "Reset", to |-> "pending"]} ELSE {})

\* a Reopen button rendered for a completed task
StatusButtonsReopen(status) ==
  IF status = "completed" THEN {[label |-> "Reopen", to |-> "pending"]}
  ELSE (IF status = "pending" THEN {[label |-> "Start", to |-> "ongoing"]} ELSE {})
       \cup (IF status = "ongoing" THEN {[label |-> "Complete", to |-> "completed"]} ELSE {})
       \cup (IF status = "ongoing" THEN {[label |-> "Reset", to |-> "pending"]} ELSE {})

\* the transition buttons rendered in a task's card
StatusButtons(status) ==
  IF status = "completed" THEN {}
  ELSE (IF status = "pending" THEN {[label |-> "Start", to |-> "ongoing"]} ELSE {})
       \cup (IF status = "ongoing" THEN {[label |-> "Complete", to |-> "completed"]} ELSE {})
       \cup (IF status = "ongoing" THEN {[label |-> "Reset", to |-> "pending"]} ELSE {})

\* what the user can type into the title field
TitleInputs == {<<" ">>, <<"b">>}

fetchTasksSettled(i) ==
  LET r == inflight[i] IN
  /\ Settled(i, "fetchTasks")
  /\ ResponseInterceptor(r)
  /\ IF r.status = Ok
       THEN tasks' = r.data /\ error' = ""
       ELSE error' = "Failed to fetch tasks" /\ UNCHANGED tasks
  /\ inflight' = AfterSettling(i)
  /\ UNCHANGED <<mounted, employees, loading, formVars, serverVars>>
  /\ UNCHANGED issued

\* TaskPage.fetchEmployees: no setError('') on success, loading cleared in finally

fetchEmployeesForTasksSettled(i) ==
  LET r == inflight[i] IN
  /\ Settled(i, "fetchEmployeesForTasks")
  /\ ResponseInterceptor(r)
  /\ IF r.status = Ok
       THEN employees' = r.data /\ UNCHANGED error
       ELSE error' = "Failed to fetch employees" /\ UNCHANGED employees
  /\ loading' = FALSE
  /\ inflight' = AfterSettling(i)
  /\ UNCHANGED <<mounted, tasks, formVars, serverVars>>
  /\ UNCHANGED issued

TaskValidationErrors(form) ==
  [title |-> IF Trim(form.title) = <<>> THEN "Title is required" ELSE ""]

handleCreateTask ==
  /\ TaskListUsable
  /\ editing' = <<>>
  /\ formData' = EmptyTaskForm
  /\ formErrors' = NoTaskErrors
  /\ dialogOpen' = TRUE
  /\ UNCHANGED <<authVars, mounted, tasks, employees, loading, error, submitting,
                 inflight, serverVars>>
  /\ UNCHANGED issued

handleEditTask(k) ==
  /\ TaskListUsable
  /\ k \in 1..Len(tasks)
  /\ editing' = <<tasks[k].id>>
  /\ formData' = [title |-> tasks[k].title]
  /\ formErrors' = NoTaskErrors
  /\ dialogOpen' = TRUE
  /\ UNCHANGED <<authVars, mounted, tasks, employees, loading, error, submitting,
                 inflight, serverVars>>
  /\ UNCHANGED issued

\* TaskPage.handleInputChange('title', value); the field is disabled while submitting

handleTaskInputChange(value) ==
  /\ mounted = PathTasks
  /\ dialogOpen
  /\ ~submitting
  /\ formData' = [formData EXCEPT !.title = value]
  /\ formErrors' = [formErrors EXCEPT !.title = ""]
  /\ UNCHANGED <<authVars, mounted, tasks, employees, loading, error, dialogOpen, editing,
                 submitting, inflight, serverVars>>
  /\ UNCHANGED issued

\* Dialog onClose (backdrop, escape) or the Cancel button

closeDialog ==
  /\ mounted # "none"
  /\ dialogOpen
  /\ dialogOpen' = FALSE
  /\ UNCHANGED <<authVars, mounted, tasks, employees, loading, error, editing, formData,
                 formErrors, submitting, inflight, serverVars>>
  /\ UNCHANGED issued

handleDeleteTask(k, confirmed) ==
  /\ TaskListUsable
  /\ k \in 1..Len(tasks)
  /\ IF confirmed
       THEN /\ Room
            /\ inflight' = Append(inflight,
                 NewRequest("deleteTask", "handleDeleteTask", tasks[k].id, <<>>, tasks))
       ELSE UNCHANGED inflight
  /\ UNCHANGED <<authVars, pageVars, serverVars>>
  /\ issued' = IF inflight' # inflight THEN issued + 1 ELSE issued

\* a catch block that sends the failed DELETE once more
handleDeleteTaskSettledRetries(i) ==
  LET r == inflight[i] IN
  /\ Settled(i, "handleDeleteTask")
  /\ ResponseInterceptor(r)
  /\ IF r.status = Ok
       THEN /\ tasks' = FilterOut(r.snap, r.id)
            /\ inflight' = AfterSettling(i)
            /\ UNCHANGED error
       ELSE /\ error' = ErrorMessage(r, "Failed to delete task")
            /\ inflight' = Append(AfterSettling(i),
                 NewRequest("deleteTask", "handleDeleteTask", r.id, <<>>, r.snap))
            /\ UNCHANGED tasks
  /\ UNCHANGED <<mounted, employees, loading, formVars, serverVars>>
  /\ UNCHANGED issued

handleDeleteTaskSettled(i) ==
  LET r == inflight[i] IN
  /\ Settled(i, "handleDeleteTask")
  /\ ResponseInterceptor(r)
  /\ IF r.status = Ok
       THEN tasks' = FilterOut(r.snap, r.id) /\ UNCHANGED error
       ELSE error' = ErrorMessage(r, "Failed to delete task") /\ UNCHANGED tasks
  /\ inflight' = AfterSettling(i)
  /\ UNCHANGED <<mounted, employees, loading, formVars, serverVars>>
  /\ UNCHANGED issued

handleStatusUpdate(k, newStatus) ==
  /\ TaskListUsable
  /\ k \in 1..Len(tasks)
  /\ newStatus \in {b.to : b \in StatusButtons(tasks[k].status)}
  /\ Room
  /\ inflight' = Append(inflight,
       NewRequest("updateTask", "handleStatusUpdate", tasks[k].id,
                  [status |-> newStatus], tasks))
  /\ UNCHANGED <<authVars, pageVars, serverVars>>
  /\ issued' = IF inflight' # inflight THEN issued + 1 ELSE issued

handleStatusUpdateSettled(i) ==
  LET r == inflight[i] IN
  /\ Settled(i, "handleStatusUpdate")
  /\ ResponseInterceptor(r)
  /\ IF r.status = Ok
       THEN tasks' = ReplaceById(r.snap, r.id, r.data[1]) /\ UNCHANGED error
       ELSE error' = ErrorMessage(r, "Failed to update task status") /\ UNCHANGED tasks
  /\ inflight' = AfterSettling(i)
  /\ UNCHANGED <<mounted, employees, loading, formVars, serverVars>>
  /\ UNCHANGED issued

\* TaskPage.handleSubmit up to its await

handleTaskSubmit ==
  /\ mounted = PathTasks
  /\ dialogOpen
  /\ ~submitting
  /\ formErrors' = TaskValidationErrors(formData)
  /\ IF formErrors' = NoTaskErrors
       THEN /\ Room
            /\ submitting' = TRUE
            /\ inflight' = Append(inflight,
                 IF editing # <<>>
                   THEN NewRequest("updateTask", "handleTaskSubmit", editing[1],
                                   [title |-> formData.title], tasks)
                   ELSE NewRequest("createTask", "handleTaskSubmit", 0,
                                   [title |-> formData.title], tasks))
       ELSE UNCHANGED <<submitting, inflight>>
  /\ UNCHANGED <<authVars, mounted, tasks, employees, loading, error, dialogOpen, editing,
                 formData, serverVars>>
  /\ issued' = IF inflight' # inflight THEN issued + 1 ELSE issued

\* setSubmitting(false) at the end of the try block instead of in a finally
handleTaskSubmitSettledNoFinally(i) ==
  LET r == inflight[i] IN
  /\ Settled(i, "handleTaskSubmit")
  /\ ResponseInterceptor(r)
  /\ IF r.status = Ok
       THEN /\ tasks' = IF r.op = "updateTask"
                          THEN ReplaceById(r.snap, r.id, r.data[1])
                          ELSE r.snap \o <<r.data[1]>>
            /\ dialogOpen' = FALSE
            /\ error' = ""
            /\ submitting' = FALSE
       ELSE /\ error' = ErrorMessage(r, "Failed to save task")
            /\ UNCHANGED <<tasks, dialogOpen, submitting>>
  /\ inflight' = AfterSettling(i)
  /\ UNCHANGED <<mounted, employees, loading, editing, formData, formErrors, serverVars>>
  /\ UNCHANGED issued

\* TaskPage.handleSubmit after its await, with catch and finally

handleTaskSubmitSettled(i) ==
  LET r == inflight[i] IN
  /\ Settled(i, "handleTaskSubmit")
  /\ ResponseInterceptor(r)
  /\ IF r.status = Ok
       THEN /\ tasks' = IF r.op = "updateTask"
                          THEN ReplaceById(r.snap, r.id, r.data[1])
                          ELSE r.snap \o <<r.data[1]>>
            /\ dialogOpen' = FALSE
            /\ error' = ""
       ELSE /\ error' = ErrorMessage(r, "Failed to save task")
            /\ UNCHANGED <<tasks, dialogOpen>>
  /\ submitting' = FALSE
  /\ inflight' = AfterSettling(i)
  /\ UNCHANGED <<mounted, employees, loading, editing, formData, formErrors, serverVars>>
  /\ UNCHANGED issued

\* ---------------------------------------------------------- EmployeePage

EmployeeListUsable == mounted = PathEmployees /\ ~loading /\ ~dialogOpen

\* what the user can type into the fields of the employee form
EmployeeInputs ==
  [name |-> {<<"m">>},
   email |-> {<<"e", "@", "e", ".", "e">>, <<"e", "@", "e">>},
   department |-> {<<"d">>},
   position |-> {<<"p">>}]

EmployeeValidationErrors(form) ==
  [name |-> IF Trim(form.name) = <<>> THEN "Name is required" ELSE "",
   email |-> IF Trim(form.email) = <<>> THEN "Email is required"
             ELSE IF ~EmailRegex(form.email) THEN "Invalid email format" ELSE "",
   department |-> IF Trim(form.department) = <<>> THEN "Department is required" ELSE "",
   position |-> IF Trim(form.position) = <<>> THEN "Position is required" ELSE ""]

fetchEmployeesSettled(i) ==
  LET r == inflight[i] IN
  /\ Settled(i, "fetchEmployees")
  /\ ResponseInterceptor(r)
  /\ IF r.status = Ok
       THEN employees' = r.data /\ error' = ""
       ELSE error' = "Failed to fetch employees" /\ UNCHANGED employees
  /\ loading' = FALSE
  /\ inflight' = AfterSettling(i)
  /\ UNCHANGED <<mounted, tasks, formVars, serverVars>>
  /\ UNCHANGED issued

handleCreateEmployee ==
  /\ EmployeeListUsable
  /\ editing' = <<>>
  /\ formData' = EmptyEmployeeForm
  /\ formErrors' = NoEmployeeErrors
  /\ dialogOpen' = TRUE
  /\ UNCHANGED <<authVars, mounted, tasks, employees, loading, error, submitting,
                 inflight, serverVars>>
  /\ UNCHANGED issued

handleEditEmployee(k) ==
  /\ EmployeeListUsable
  /\ k \in 1..Len(employees)
  /\ editing' = <<employees[k].id>>
  /\ formData' = [name |-> employees[k].name, email |-> employees[k].email,
                  department |-> employees[k].department,
                  position |-> employees[k].position]
  /\ formErrors' = NoEmployeeErrors
  /\ dialogOpen' = TRUE
  /\ UNCHANGED <<authVars, mounted, tasks, employees, loading, error, submitting,
                 inflight, serverVars>>
  /\ UNCHANGED issued

\* EmployeePage.handleInputChange(field, value)

handleEmployeeInputChange(field, value) ==
  /\ mounted = PathEmployees
  /\ dialogOpen
  /\ ~submitting
  /\ formData' = [formData EXCEPT ![field] = value]
  /\ formErrors' = [formErrors EXCEPT ![field] = ""]
  /\ UNCHANGED <<authVars, mounted, tasks, employees, loading, error, dialogOpen, editing,
                 submitting, inflight, serverVars>>
  /\ UNCHANGED issued

handleDeleteEmployee(k, confirmed) ==
  /\ EmployeeListUsable
  /\ k \in 1..Len(employees)
  /\ IF confirmed
       THEN /\ Room
            /\ inflight' = Append(inflight,
                 NewRequest("deleteEmployee", "handleDeleteEmployee", employees[k].id,
                            <<>>, employees))
       ELSE UNCHANGED inflight
  /\ UNCHANGED <<authVars, pageVars, serverVars>>
  /\ issued' = IF inflight' # inflight THEN issued + 1 ELSE issued

handleDeleteEmployeeSettled(i) ==
  LET r == inflight[i] IN
  /\ Settled(i, "handleDeleteEmployee")
  /\ ResponseInterceptor(r)
  /\ IF r.status = Ok
       THEN employees' = FilterOut(r.snap, r.id) /\ UNCHANGED error
       ELSE error' = ErrorMessage(r, "Failed to delete employee") /\ UNCHANGED employees
  /\ inflight' = AfterSettling(i)
  /\ UNCHANGED <<mounted, tasks, loading, formVars, serverVars>>
  /\ UNCHANGED issued

\* EmployeePage.handleSubmit up to its await

handleEmployeeSubmit ==
  /\ mounted = PathEmployees
  /\ dialogOpen
  /\ ~submitting
  /\ formErrors' = EmployeeValidationErrors(formData)
  /\ IF formErrors' = NoEmployeeErrors
       THEN /\ Room
            /\ submitting' = TRUE
            /\ inflight' = Append(inflight,
                 IF editing # <<>>
                   THEN NewRequest("updateEmployee", "handleEmployeeSubmit", editing[1],
                                   formData, employees)
                   ELSE NewRequest("createEmployee", "handleEmployeeSubmit", 0,
                                   formData, employees))
       ELSE UNCHANGED <<submitting, inflight>>
  /\ UNCHANGED <<authVars, mounted, tasks, employees, loading, error, dialogOpen, editing,
                 formData, serverVars>>
  /\ issued' = IF inflight' # inflight THEN issued + 1 ELSE issued

\* EmployeePage.handleSubmit after its await, with catch and finally

handleEmployeeSubmitSettled(i) ==
  LET r == inflight[i] IN
  /\ Settled(i, "handleEmployeeSubmit")
  /\ ResponseInterceptor(r)
  /\ IF r.status = Ok
       THEN /\ employees' = IF r.op = "updateEmployee"
                              THEN ReplaceById(r.snap, r.id, r.data[1])
                              ELSE r.snap \o <<r.data[1]>>
            /\ dialogOpen' = FALSE
            /\ error' = ""
       ELSE /\ error' = ErrorMessage(r, "Failed to save employee")
            /\ UNCHANGED <<employees, dialogOpen>>
  /\ submitting' = FALSE
  /\ inflight' = AfterSettling(i)
  /\ UNCHANGED <<mounted, tasks, loading, editing, formData, formErrors, serverVars>>
  /\ UNCHANGED issued

\* ------------------------------------------------------------------ Next
\* the two halves of a successful login run back to back as microtasks: no
\* event is dispatched between setItem and setIsAuthenticated(true)

BetweenLoginHalves == loginReq # <<>> /\ loginReq[1].phase = "stored"

Slots == 1..Len(inflight)

Next ==
  \/ checkAuth
  \/ logout
  \/ reload
  \/ \E i \in Slots : serveOk(i)
  \/ \E i \in Slots, rej \in Rejections : serveReject(i, rej)
  \/ \E i \in Slots : settleUnmounted(i)
  \/ \E i \in Slots : fetchTasksSettled(i)
  \/ \E i \in Slots : fetchEmployeesForTasksSettled(i)
  \/ handleCreateTask
  \/ \E k \in 1..Len(tasks) : handleEditTask(k)
  \/ \E v \in TitleInputs : handleTaskInputChange(v)
  \/ closeDialog
  \/ \E k \in 1..Len(tasks), c \in BOOLEAN : handleDeleteTask(k, c)
  \/ \E i \in Slots : handleDeleteTaskSettled(i)
  \/ \E k \in 1..Len(tasks), st \in {"pending", "ongoing", "completed"} :
       handleStatusUpdate(k, st)
  \/ \E i \in Slots : handleStatusUpdateSettled(i)
  \/ handleTaskSubmit
  \/ \E i \in Slots : handleTaskSubmitSettled(i)
  \/ \E i \in Slots : fetchEmployeesSettled(i)
  \/ handleCreateEmployee
  \/ \E k \in 1..Len(employees) : handleEditEmployee(k)
  \/ \E f \in DOMAIN EmployeeInputs : \E v \in EmployeeInputs[f] :
       handleEmployeeInputChange(f, v)
  \/ \E k \in 1..Len(employees), c \in BOOLEAN : handleDeleteEmployee(k, c)
  \/ \E i \in Slots : handleDeleteEmployeeSettled(i)
  \/ handleEmployeeSubmit
  \/ \E i \in Slots : handleEmployeeSubmitSettled(i)

\* one visit to one of the two list screens, from page load to the return to
\* the login screen
Spec == Init /\ [][Next]_vars

\* the session: login, logout, navigation and the fetches of the screens' mount
\* effects; the two halves of a successful login run back to back as
\* microtasks, no event is dispatched between them
NextSession ==
  \/ loginSetAuthenticated
  \/ ~BetweenLoginHalves /\ checkAuth
  \/ ~BetweenLoginHalves /\ \E valid \in BOOLEAN : login(valid)
  \/ ~BetweenLoginHalves /\ serveLogin
  \/ ~BetweenLoginHalves /\ loginStoreToken
  \/ ~BetweenLoginHalves /\ loginRejected
  \/ ~BetweenLoginHalves /\ logout
  \/ ~BetweenLoginHalves /\ \E path \in Protected : navigate(path)
  \/ ~BetweenLoginHalves /\ \E path \in Protected : enterApp(path)
  \/ ~BetweenLoginHalves /\ reload
  \/ ~BetweenLoginHalves /\ \E i \in Slots : serveOk(i)
  \/ ~BetweenLoginHalves /\ \E i \in Slots, rej \in Rejections : serveReject(i, rej)
  \/ ~BetweenLoginHalves /\ \E i \in Slots : settleUnmounted(i)
  \/ ~BetweenLoginHalves /\ \E i \in Slots : fetchTasksSettled(i)
  \/ ~BetweenLoginHalves /\ \E i \in Slots : fetchEmployeesForTasksSettled(i)
  \/ ~BetweenLoginHalves /\ \E i \in Slots : fetchEmployeesSettled(i)

SpecSession == Init /\ [][NextSession]_vars

\* ------------------------------------------------------ the form dialogs
\* field contents a user can have typed when pressing the submit button
BlankOrNot(c) == {<<>>, <<" ">>, <<c>>, <<" ", c, " ">>}

EmailsTyped ==
  {<<>>, <<" ">>,
   <<"n", "o", "t", "-", "a", "n", "-", "e", "m", "a", "i", "l">>,
   <<"a", "@", "b", ".", "c", "o">>,
   <<"a", "@", "b">>, <<"@", "b", ".", "c", "o">>, <<"a", "@", ".", "c", "o">>, <<"a", "@", "b", ".">>, <<" ", "a", "@", "b", ".", "c", "o">>, <<"a", " ", "@", "b", ".", "c", "o">>}

EmployeeFormsTyped ==
  [name : BlankOrNot("m"), email : EmailsTyped,
   department : {<<>>, <<" ">>, <<"d">>}, position : {<<>>, <<" ">>, <<"p">>}]

TaskFormsTyped == [title : BlankOrNot("b")]

\* a list screen of an authenticated session, its lists fetched, the form
\* dialog open for a new or for the first entity, the fields filled in
InitForms ==
  /\ token = IssuedToken
  /\ isAuthenticated = TRUE
  /\ authLoading = FALSE
  /\ location \in Protected
  /\ redirecting = FALSE
  /\ loginReq = <<>>
  /\ loginError = FALSE
  /\ mounted = location
  /\ tasks = IF mounted = PathTasks THEN <<InitialTask>> ELSE <<>>
  /\ employees = <<InitialEmployee>>
  /\ loading = FALSE
  /\ error = ""
  /\ dialogOpen = TRUE
  /\ editing \in {<<>>, <<1>>}
  /\ formData \in IF mounted = PathEmployees THEN EmployeeFormsTyped ELSE TaskFormsTyped
  /\ formErrors = IF mounted = PathEmployees THEN NoEmployeeErrors ELSE NoTaskErrors
  /\ submitting = FALSE
  /\ inflight = <<>>
  /\ dbTasks = {InitialTask}
  /\ dbEmployees = {InitialEmployee}
  /\ nextTaskId = 2
  /\ nextEmployeeId = 2
  /\ issued = 0

NextForms ==
  \/ checkAuth
  \/ reload
  \/ \E i \in Slots : serveOk(i)
  \/ \E i \in Slots, rej \in Rejections : serveReject(i, rej)
  \/ handleCreateTask
  \/ \E k \in 1..Len(tasks) : handleEditTask(k)
  \/ \E v \in TitleInputs : handleTaskInputChange(v)
  \/ closeDialog
  \/ handleTaskSubmit
  \/ \E i \in Slots : handleTaskSubmitSettled(i)
  \/ handleCreateEmployee
  \/ \E k \in 1..Len(employees) : handleEditEmployee(k)
  \/ \E f \in DOMAIN EmployeeInputs : \E v \in EmployeeInputs[f] :
       handleEmployeeInputChange(f, v)
  \/ handleEmployeeSubmit
  \/ \E i \in Slots : handleEmployeeSubmitSettled(i)

\* the form dialogs of the two screens, whatever was typed into their fields
SpecForms == InitForms /\ [][NextForms]_vars

\* =============================================================== claims
\* request i's response is handed to its caller in this step
Settles(i) ==
  /\ i \in 1..Len(inflight)
  /\ inflight[i].phase = "done"
  /\ inflight' = AfterSettling(i)
  /\ ~authLoading'

IsTaskOp(r) == r.op \in {"getTasks", "createTask", "updateTask", "deleteTask"}
IsCreate(r) == r.op \in {"createTask", "createEmployee"}
IsDelete(r) == r.op \in {"deleteTask", "deleteEmployee"}
IsMutation(r) == IsCreate(r) \/ IsUpdate(r) \/ IsDelete(r)

\* the list a mutation belongs to, as displayed before and after the step
ListBefore(r) == IF IsTaskOp(r) THEN tasks ELSE employees
ListAfter(r) == IF IsTaskOp(r) THEN tasks' ELSE employees'

\* a live component receives the 200 response of request i in this step
Confirmed(i) == Settles(i) /\ inflight[i].live /\ inflight[i].status = Ok
Failed(i) == Settles(i) /\ inflight[i].live /\ inflight[i].status # Ok

HasEntry(list, row) == \E k \in 1..Len(list) : list[k] = row
EntryIs(list, id, row) ==
  /\ \E k \in 1..Len(list) : list[k].id = id
  /\ \A k \in 1..Len(list) : list[k].id = id => list[k] = row

\* C1: a confirmed create leaves the list one entry longer than the list
\* displayed just before the response was applied, the server's entity added
C1_CreateAddsOneEntry ==
  [][\A i \in 1..Len(inflight) :
       (Confirmed(i) /\ IsCreate(inflight[i])) =>
         /\ Len(ListAfter(inflight[i])) = Len(ListBefore(inflight[i])) + 1
         /\ HasEntry(ListAfter(inflight[i]), inflight[i].data[1])]_vars

\* C2: a confirmed update keeps the number of entries displayed just before the
\* response was applied, and the entry with that id is the server's entity
C2_UpdateReplacesEntry ==
  [][\A i \in 1..Len(inflight) :
       (Confirmed(i) /\ IsUpdate(inflight[i])) =>
         /\ Len(ListAfter(inflight[i])) = Len(ListBefore(inflight[i]))
         /\ EntryIs(ListAfter(inflight[i]), inflight[i].id, inflight[i].data[1])]_vars

\* C3: after a confirmed delete the id is absent from the list; after a failed
\* delete the list is as it was and the error banner is set
C3_DeleteReconciled ==
  [][\A i \in 1..Len(inflight) :
       (Settles(i) /\ inflight[i].live /\ IsDelete(inflight[i])) =>
         IF inflight[i].status = Ok
           THEN inflight[i].id \notin Ids(ListAfter(inflight[i]))
           ELSE /\ ListAfter(inflight[i]) = ListBefore(inflight[i])
                /\ error' # ""]_vars

\* a delete failed, a later delete of the task was confirmed, both are reconciled
C3_Witness ==
  /\ mounted = PathTasks
  /\ inflight = <<>>
  /\ issued >= 2
  /\ dbTasks = {}
  /\ tasks = <<>>
  /\ error = "Failed to delete task"

\* the table of C4: the buttons per displayed status, as <<label, target>>
OfferedByClaim(status) ==
  IF status = "pending" THEN {<<"Start", "ongoing">>}
  ELSE IF status = "ongoing" THEN {<<"Complete", "completed">>, <<"Reset", "pending">>}
  ELSE {}

\* the request appended to the requests in flight in this step, as a set
Sent ==
  IF Len(inflight') = Len(inflight) + 1 /\ mounted' = mounted /\ ~authLoading'
    THEN {inflight'[Len(inflight')]} ELSE {}

\* C4: the transitions offered for a displayed task are those of the table for
\* its status, and every status-change request that is sent is one of them
C4_TransitionsOffered ==
  [][/\ \A k \in 1..Len(tasks) :
          {<<b.label, b.to>> : b \in StatusButtons(tasks[k].status)}
            = OfferedByClaim(tasks[k].status)
     /\ \A r \in Sent :
          (r.op = "updateTask" /\ "status" \in DOMAIN r.body) =>
            \E k \in 1..Len(tasks) :
              /\ tasks[k].id = r.id
              /\ \E b \in OfferedByClaim(tasks[k].status) : b[2] = r.body.status]_vars

\* Complete was clicked on an ongoing task and Reset on it as well
C4_Witness ==
  /\ \E i \in 1..Len(inflight) :
       inflight[i].handler = "handleStatusUpdate" /\ inflight[i].body.status = "completed"
  /\ \E i \in 1..Len(inflight) :
       inflight[i].handler = "handleStatusUpdate" /\ inflight[i].body.status = "pending"

\* C5: a failed status transition leaves the task list as it was and sets the
\* error banner, and the click itself changes nothing in the list
C5_FailedTransition ==
  [][/\ \A i \in 1..Len(inflight) :
          (Failed(i) /\ inflight[i].handler = "handleStatusUpdate") =>
            tasks' = tasks /\ error' # ""
     /\ \A r \in Sent : r.handler = "handleStatusUpdate" => tasks' = tasks]_vars

\* a transition failed without a server message and the task is still displayed
C5_Witness ==
  /\ mounted = PathTasks
  /\ error = "Failed to update task status"
  /\ \E k \in 1..Len(tasks) : tasks[k].status = "ongoing"
  /\ \A i \in 1..Len(inflight) : inflight[i].handler # "handleStatusUpdate"

\* one response folded into the displayed list, as C6 states the reconciliation
Fold(list, r) ==
  IF r.status # Ok THEN list
  ELSE IF r.op \in {"getTasks", "getEmployees"} THEN r.data
  ELSE IF IsCreate(r) THEN Append(list, r.data[1])
  ELSE IF IsUpdate(r) THEN ReplaceById(list, r.id, r.data[1])
  ELSE FilterOut(list, r.id)

\* C6: the displayed list is the last full fetch with every confirmed create,
\* update and delete folded in, in the order the responses resolved: each
\* response is folded into the list as displayed when it resolves, and
\* nothing else changes a mounted page's lists
C6_ListIsFoldOfResponses ==
  [][/\ \A i \in 1..Len(inflight) :
          (Settles(i) /\ inflight[i].live) =>
            ListAfter(inflight[i]) = Fold(ListBefore(inflight[i]), inflight[i])
     /\ ((\A i \in 1..Len(inflight) : ~Settles(i)) /\ mounted' = mounted /\ ~authLoading')
          => UNCHANGED <<tasks, employees>>]_vars

\* C7: of two updates of one entity that were in flight together and both
\* succeeded, the one that resolves last is the entry displayed afterwards
C7_LastResponseWins ==
  [][\A i \in 1..Len(inflight) :
       (Confirmed(i) /\ IsUpdate(inflight[i]) /\ inflight[i].raced) =>
         EntryIs(ListAfter(inflight[i]), inflight[i].id, inflight[i].data[1])]_vars

LoginSettles == loginReq # <<>> /\ loginReq' = <<>> /\ ~authLoading'

\* C8: a rejected login leaves the token and the authenticated flag as they
\* were, so an anonymous session stays anonymous with no token stored, and the
\* promise of login() rejects; sending the attempt changes neither
C8_RejectedLogin ==
  [][/\ (LoginSettles /\ loginReq[1].status # Ok) =>
          /\ token' = token
          /\ isAuthenticated' = isAuthenticated
          /\ loginError'
     /\ (loginReq = <<>> /\ loginReq' # <<>>) =>
          token' = token /\ isAuthenticated' = isAuthenticated]_vars

\* an anonymous user's login was rejected by the server
C8_Witness ==
  /\ loginError
  /\ loginReq = <<>>
  /\ location = PathLogin
  /\ ~isAuthenticated
  /\ token = NoToken

\* C9: an accepted login ends authenticated with a non-empty token in storage,
\* and the token is in storage before the flag is set
C9_AcceptedLogin ==
  [][/\ (LoginSettles /\ loginReq[1].status = Ok) =>
          /\ isAuthenticated'
          /\ token' # NoToken
          /\ token # NoToken
     /\ (loginReq # <<>> /\ loginReq[1].phase = "done" /\ loginReq' # <<>>
           /\ loginReq'[1].phase = "stored") =>
          /\ token' = loginReq[1].access_token
          /\ token' # NoToken
          /\ isAuthenticated' = isAuthenticated]_vars

\* an anonymous user's login was accepted: the token is stored, the flag not yet set
C9_Witness ==
  /\ BetweenLoginHalves
  /\ token = IssuedToken
  /\ ~isAuthenticated

LogsOut == mounted # "none" /\ mounted' = "none" /\ ~authLoading'

\* C11: logout removes the stored token and sets the authenticated flag to
\* false whatever was going on, sends no request (neither an apiClient request
\* nor a login call), and leaves no protected screen rendered
C11_LogoutIsLocal ==
  [][LogsOut =>
       /\ token' = NoToken
       /\ ~isAuthenticated'
       /\ Len(inflight') = Len(inflight)
       /\ \A i \in 1..Len(inflight) : inflight'[i] = [inflight[i] EXCEPT !.live = FALSE]
       /\ loginReq' = loginReq
       /\ ~ProtectedRouteShows(isAuthenticated', authLoading')
       /\ location' = PathLogin]_vars

\* the user logged out while a create, update or delete was in flight
C11_Witness ==
  /\ ~authLoading
  /\ mounted = "none"
  /\ location = PathLogin
  /\ token = NoToken
  /\ ~isAuthenticated
  /\ \E i \in 1..Len(inflight) : ~inflight[i].live /\ IsMutation(inflight[i])

SentCount(reqs) == Cardinality({k \in 1..Len(reqs) : reqs[k].phase = "sent"})
DoneCount(reqs) == Cardinality({k \in 1..Len(reqs) : reqs[k].phase = "done"})

\* the requests of the step before, whatever became of their components
SameRequest(a, b) == [a EXCEPT !.live = b.live, !.raced = b.raced] = b

Blank(s) == \A k \in 1..Len(s) : s[k] = " "

NoSpace(s) == s # <<>> /\ \A k \in 1..Len(s) : s[k] # " "

\* the x@y.z shape: somewhere in s stand x, '@', y, '.', z, each of x, y and z
\* at least one character long and free of spaces
HasEmailShape(s) ==
  \E a, b, c, d, e \in 1..Len(s) :
    /\ a < b /\ b + 1 < c /\ c < d /\ d <= e
    /\ NoSpace(SubSeq(s, a, b - 1))
    /\ s[b] = "@"
    /\ NoSpace(SubSeq(s, b + 1, c - 1))
    /\ s[c] = "."
    /\ NoSpace(SubSeq(s, d, e))
    /\ d = c + 1

\* the fields of a form that C14 says fail validation
FailingFields(form) ==
  {f \in DOMAIN form : Blank(form[f])}
    \cup (IF "email" \in DOMAIN form /\ ~HasEmailShape(form.email) THEN {"email"} ELSE {})

\* the step is a press of the submit button that changed something: it raised
\* an inline error or it started a submission
SubmitPressed ==
  /\ mounted # "none"
  /\ mounted' = mounted
  /\ \/ \E f \in DOMAIN formErrors : formErrors[f] = "" /\ formErrors'[f] # ""
     \/ ~submitting /\ submitting'

\* C14: a press of the submit button sends a request exactly when no field of
\* the form is blank and, on the employee form, the email has the x@y.z shape;
\* the request is then the create or update of the form's data; otherwise
\* nothing is sent, the lists stay as they are and exactly the failing fields
\* carry an inline error
C14_ValidationGatesSubmit ==
  [][SubmitPressed =>
       /\ DOMAIN formData = IF mounted = PathEmployees
                              THEN {"name", "email", "department", "position"}
                              ELSE {"title"}
       /\ IF FailingFields(formData) = {}
            THEN /\ Sent # {}
                 /\ \A r \in Sent :
                      /\ IsCreate(r) \/ IsUpdate(r)
                      /\ \A f \in DOMAIN formData : r.body[f] = formData[f]
                 /\ \A f \in DOMAIN formData : formErrors'[f] = ""
            ELSE /\ inflight' = inflight
                 /\ UNCHANGED <<tasks, employees, submitting>>
                 /\ \A f \in DOMAIN formData :
                      formErrors'[f] # "" <=> f \in FailingFields(formData)]_vars

\* "not-an-email" was submitted with the other fields filled in: only the email
\* carries an error and nothing was sent
C14_Witness ==
  /\ mounted = PathEmployees
  /\ dialogOpen
  /\ formData.email = <<"n", "o", "t", "-", "a", "n", "-", "e", "m", "a", "i", "l">>
  /\ formErrors = [NoEmployeeErrors EXCEPT !.email = "Invalid email format"]
  /\ inflight = <<>>
  /\ issued = 0

\* the apiClient requests sent in this step
Issued ==
  IF SentCount(inflight') > SentCount(inflight)
    THEN {inflight'[k] : k \in (Len(inflight) + 1)..Len(inflight')} ELSE {}

\* C15: a request carries as its Authorization header the token that is in
\* storage when it is sent, and no header when none is stored then: whatever
\* token was stored earlier, before a logout or a 401, is not sent again
C15_BearerFromStorage ==
  [][\A r \in Issued : r.authorization = token /\ token' = token]_vars

\* a 401 removed the token and the screen entered afterwards, before the
\* document was replaced, fetched without an Authorization header
C15_Witness ==
  /\ redirecting
  /\ token = NoToken
  /\ \E i \in 1..Len(inflight) :
       /\ inflight[i].live
       /\ inflight[i].phase = "sent"
       /\ inflight[i].authorization = NoToken
  /\ \E i \in 1..Len(inflight) : ~inflight[i].live /\ inflight[i].authorization # NoToken

IsSubmit(r) == r.handler \in {"handleTaskSubmit", "handleEmployeeSubmit"}

\* the banner C16 expects for a failed submit
SubmitBanner(r) ==
  IF r.detail # "" THEN r.detail
  ELSE IF IsTaskOp(r) THEN "Failed to save task" ELSE "Failed to save employee"

\* C16: the failure of a validated submit leaves the dialog as it is (open
\* when it was open), the form data and the lists untouched, sets the banner
\* to the server's detail or else to the generic message, and clears the
\* submitting flag so that the submit button works again; a successful submit
\* clears the flag as well
C16_FailedSubmitKeepsForm ==
  [][\A i \in 1..Len(inflight) :
       (Settles(i) /\ inflight[i].live /\ IsSubmit(inflight[i])) =>
         /\ submitting
         /\ ~submitting'
         /\ inflight[i].status # Ok =>
              /\ dialogOpen' = dialogOpen
              /\ formData' = formData
              /\ editing' = editing
              /\ UNCHANGED <<tasks, employees>>
              /\ error' = SubmitBanner(inflight[i])
              /\ error' # ""]_vars

\* a create failed in transport: the dialog is still open with the title that
\* was entered, the list is as fetched, the flag is cleared
C16_Witness ==
  /\ mounted = PathTasks
  /\ dialogOpen
  /\ ~submitting
  /\ editing = <<>>
  /\ formData = [title |-> <<"b">>]
  /\ error = "Failed to save task"
  /\ tasks = <<InitialTask>>
  /\ inflight = <<>>
  /\ issued = 1

\* the list shows the task with one of the given statuses
Shows(list, id, statuses) ==
  \E k \in 1..Len(list) : list[k].id = id /\ list[k].status \in statuses

\* C17 as stated: a task displayed as completed is not displayed as pending or
\* ongoing after any step of the screen that shows it, responses to requests
\* already in flight included
C17_CompletedIsTerminal ==
  [][\A id \in 1..MaxId :
       (Shows(tasks, id, {"completed"}) /\ mounted' = mounted /\ ~authLoading') =>
         ~Shows(tasks', id, {"pending", "ongoing"})]_vars

\* no row with this id in a status other than completed
OnlyCompleted(rows, id) ==
  \A k \in 1..Len(rows) : rows[k].id = id => rows[k].status = "completed"

\* the server issued the id and holds the task as completed, or deleted it
ServerCompleted(id) ==
  /\ id < nextTaskId
  /\ \A x \in dbTasks : x.id = id => x.status = "completed"

\* a request that cannot bring an older status of the task back: it asks for
\* no status change of it, and neither the list its handler captured nor its
\* response holds the task in another status
CarriesNoOlderStatus(r, id) ==
  IsTaskOp(r) =>
    /\ OnlyCompleted(r.snap, id)
    /\ OnlyCompleted(r.data, id)
    /\ (r.op = "updateTask" /\ r.id = id) => "status" \notin DOMAIN r.body

\* the task is completed for the server, not displayed otherwise, and nothing
\* unresolved carries an older status of it
CompletedAndSettled(id) ==
  /\ ServerCompleted(id)
  /\ OnlyCompleted(tasks, id)
  /\ \A i \in 1..Len(inflight) : CarriesNoOlderStatus(inflight[i], id)

\* C17 amended: once a task is displayed as completed while the server holds
\* it as completed and no request sent earlier is unresolved, no client action
\* and no response makes its displayed status pending or ongoing again: no
\* status change is offered for it, and every later request and response
\* carries it as completed
C17_CompletedStaysOnceSettled ==
  [][\A id \in 1..MaxId : CompletedAndSettled(id) => CompletedAndSettled(id)']_vars

\* task 1 was started and completed, then its title was edited: it is still
\* displayed as completed
C17_Witness ==
  /\ mounted = PathTasks
  /\ CompletedAndSettled(1)
  /\ tasks = <<[id |-> 1, title |-> <<"b">>, status |-> "completed"]>>
  /\ inflight = <<>>
  /\ issued = 3

\* C18: whenever the session store is not loading, authenticated is true
\* exactly when a non-empty token is in storage (the microtask gap inside a
\* successful login, which no event can observe, is left aside)
C18_AuthenticatedIffToken ==
  (~authLoading /\ ~BetweenLoginHalves) => (isAuthenticated <=> token # NoToken)

\* the server deleted the task and the delete's response has been reconciled:
\* the screen is up, the id is in neither the server's table nor the list, and
\* no delete of it is waiting for its response
TaskDeleted(id) ==
  /\ mounted = PathTasks
  /\ id < nextTaskId
  /\ id \notin {x.id : x \in dbTasks}
  /\ id \notin Ids(tasks)
  /\ \A i \in 1..Len(inflight) : ~(inflight[i].op = "deleteTask" /\ inflight[i].id = id)

EmployeeDeleted(id) ==
  /\ mounted = PathEmployees
  /\ id < nextEmployeeId
  /\ id \notin {x.id : x \in dbEmployees}
  /\ id \notin Ids(employees)
  /\ \A i \in 1..Len(inflight) : ~(inflight[i].op = "deleteEmployee" /\ inflight[i].id = id)

\* C19: an id whose delete was confirmed and reconciled does not come back
\* into the list of the screen, whatever response resolves afterwards
C19_DeletedStaysDeleted ==
  [][\A id \in 1..MaxId :
       /\ (TaskDeleted(id) /\ mounted' = mounted) => id \notin Ids(tasks')
       /\ (EmployeeDeleted(id) /\ mounted' = mounted) => id \notin Ids(employees')]_vars

\* an initial fetch of the mounted task screen that has not settled
Fetching(reqs, handler) ==
  \E i \in 1..Len(reqs) : reqs[i].live /\ reqs[i].handler = handler

\* C20: on the task screen the spinner stays until the initial task fetch has
\* settled; a failed initial fetch sets the banner, and when the second of the
\* two initial fetches settles after the first one failed, the banner is still
\* set, whichever of the two came first (no create, update or delete was sent
\* yet, so the banner tells whether the first one failed)
C20_InitialFetches ==
  [][/\ (mounted' = PathTasks /\ Fetching(inflight', "fetchTasks")) => loading'
     /\ \A i \in 1..Len(inflight) :
          (/\ Settles(i)
           /\ inflight[i].live
           /\ inflight[i].handler \in {"fetchTasks", "fetchEmployeesForTasks"}
           /\ issued = 0) =>
            /\ inflight[i].status # Ok => error' # ""
            /\ (error # "" /\ inflight' = <<>>) => error' # ""]_vars

====
